---- MODULE Spec2Model ----
(***************************************************************************)
(* Model of `leave` (src/src/main.rs): delete every entry of the working   *)
(* directory except the ones named on the command line.                    *)
(*                                                                         *)
(* Paths are sequences of components; the root is the empty sequence.      *)
(* Rust compares paths component-wise, and Path::components drops every    *)
(* "." that is not leading, so a sequence of components is exactly what    *)
(* PathBuf equality and HashSet<PathBuf> membership observe.               *)
(*                                                                         *)
(* The filesystem around the run is                                        *)
(*     /p            the directory the shell is in when -C is given        *)
(*     /p/w          the working directory, whose entries are `dir`        *)
(*     /p/w/<n>/x    the contents of a top-level directory <n>             *)
(* Concurrent modification of the directory by other processes is not      *)
(* modelled.                                                               *)
(*                                                                         *)
(* System calls that can fail for reasons the model does not hold          *)
(* (permissions, I/O) fail nondeterministically: opening the listing       *)
(* (OpenListing), an item of the directory stream (ReadError), and the     *)
(* calls that remove an entry (io_ok in ProcessEntry). An Err item of the  *)
(* stream carries no entry, and the stream yields every entry of the       *)
(* directory once, in any order. std::path::absolute and                   *)
(* DirEntry::file_type are taken to succeed: the first fails only on an    *)
(* empty path or a vanished current directory, the second reads the type   *)
(* the stream delivered.                                                   *)
(***************************************************************************)
EXTENDS Integers, Sequences, FiniteSets, TLC

\* ------------------------------------------------------------------ bounds

\* Longest preserve-list (cli.files) the command line carries.
MaxTargets == 2

\* Symbolic links followed while resolving one path before ELOOP.
MaxLinkHops == 2

\* Longest preserve-list of the runs checked for termination under fairness.
MaxFairTargets == 1

\* Most "." components written in front of a name (x, ./x, ././x).
MaxDots == 2

\* ------------------------------------------------------------- the universe

StartDir == <<"p">>
WorkDir == <<"p", "w">>

\* Names a top-level entry of the working directory may have.
EntryNames == <<"a", "b", "c">>

\* Names an entry of a top-level directory may have.
ChildNames == {"x"}

\* A path as typed: absolute or relative, and its components.
Rel(comps) == [abs |-> FALSE, comps |-> comps]
Abs(comps) == [abs |-> TRUE, comps |-> comps]

\* What a symbolic link of the working directory may point to.
LinkTargets == {<<"a">>}

\* The preserve-targets a command line is built from.
TargetPool ==
    { Rel(<<"a">>), Rel(<<".", "b">>), Rel(<<"a", "x">>), Rel(<<"nx">>),
      Rel(<<"..">>), Rel(<<".">>), Abs(<<>>) }

FileNode == [kind |-> "file", children |-> {}, target |-> <<>>]
DirNode(ch) == [kind |-> "dir", children |-> ch, target |-> <<>>]
LinkNode(t) == [kind |-> "symlink", children |-> {}, target |-> t]

Nodes ==
    {FileNode} \cup {DirNode(ch) : ch \in SUBSET ChildNames}
               \cup {LinkNode(t) : t \in LinkTargets}

\* The directories a run may find: the first k names, each of any kind.
Trees ==
    UNION { [ {EntryNames[i] : i \in 1..k} -> Nodes ] : k \in 0..Len(EntryNames) }

SeqsUpTo(S, n) == UNION { [1..k -> S] : k \in 0..n }

NoCli == [files |-> <<>>, recursive |-> FALSE, dirs |-> FALSE, force |-> FALSE]
NoFatal == [kind |-> "None", arg |-> Rel(<<>>)]

VARIABLES
    pc,              \* where main_fallible is
    cwd,             \* the process's current directory
    cli,             \* CliOptions (files, recursive, dirs, force)
    dir,             \* the working directory: name -> node
    orig,            \* dir as it was when the run started
    absolute_files,  \* the HashSet<PathBuf> of preserve-targets
    pending,         \* entries the directory stream has not yielded yet
    outcome,         \* what process_entry returned for each yielded entry
    had_failure,     \* main_fallible's flag
    read_error,      \* the stream yielded an Err item
    warned,          \* targets a "doesn't exist" warning was printed for
    fatal,           \* the error main_fallible returned, if any
    exit             \* the process's exit status

vars == <<pc, cwd, cli, dir, orig, absolute_files, pending, outcome,
          had_failure, read_error, warned, fatal, exit>>

\* ------------------------------------------------------------------- paths

Front(s) == SubSeq(s, 1, Len(s) - 1)

\* Components that drops one leading "." only.
Components_LeadingOnly(comps) ==
    IF comps # <<>> /\ Head(comps) = "." THEN Tail(comps) ELSE comps

\* Path::components: "." components do not count.
Components(comps) == SelectSeq(comps, LAMBDA c : c # ".")

\* std::path::absolute: prepend the current directory to a relative path,
\* drop ".", keep "..", resolve no symlink.
Absolute(p, base) ==
    IF p.abs THEN Components(p.comps) ELSE base \o Components(p.comps)

\* abs_path.parent().is_some_and(|parent| *parent != cwd_absolute)
\* Path::parent is None for the root and strips the last component otherwise,
\* a ".." included.
ParentIsNot(abs_path, cwd_absolute) ==
    /\ abs_path # <<>>
    /\ Front(abs_path) # cwd_absolute

\* -------------------------------------------------------------- filesystem

\* The node at a path without "." , ".." or symlinks on the way.
NodeAt(path, tree) ==
    CASE path = <<>> -> DirNode({})
      [] path = StartDir -> DirNode({})
      [] path = WorkDir -> DirNode({})
      [] Len(path) = 3 /\ Front(path) = WorkDir /\ path[3] \in DOMAIN tree ->
            tree[path[3]]
      [] /\ Len(path) = 4 /\ SubSeq(path, 1, 2) = WorkDir
         /\ path[3] \in DOMAIN tree /\ path[4] \in tree[path[3]].children ->
            FileNode
      [] OTHER -> [kind |-> "missing", children |-> {}, target |-> <<>>]

\* The one element of a singleton set: a value bound in a set constructor is
\* computed once, an operator's argument at every use.
The(S) == CHOOSE r \in S : TRUE

\* Path resolution as the kernel does it for stat(2): "found", "missing"
\* (ENOENT), "notdir" (ENOTDIR) or "loop" (ELOOP).
RECURSIVE Walk(_, _, _, _)
Walk(at, comps, hops, tree) ==
    IF comps = <<>> THEN "found"
    ELSE The({
        CASE c = "." -> Walk(dirp, rest, hops, tree)
          [] c = ".." ->
               Walk(IF dirp = <<>> THEN dirp ELSE Front(dirp), rest, hops, tree)
          [] OTHER ->
               The({
                 CASE node.kind = "missing" -> "missing"
                   [] node.kind = "file" ->
                         IF rest = <<>> THEN "found" ELSE "notdir"
                   [] node.kind = "dir" ->
                         Walk(Append(dirp, c), rest, hops, tree)
                   [] OTHER ->
                         IF hops = 0 THEN "loop"
                         ELSE Walk(dirp, node.target \o rest, hops - 1, tree)
                 : node \in {NodeAt(Append(dirp, c), tree)} })
        : dirp \in {at}, c \in {Head(comps)}, rest \in {Tail(comps)} })

\* Path::try_exists: Ok(true), Ok(false) when the error is NotFound, Err for
\* every other error.
TryExists(p, base, tree) ==
    LET r == Walk(IF p.abs THEN <<>> ELSE base, p.comps, MaxLinkHops, tree)
    IN  CASE r = "found" -> "true"
          [] r = "missing" -> "false"
          [] OTHER -> "err"

\* ---------------------------------------------------------------- the run

Init ==
    /\ pc = "parse"
    /\ cwd \in {StartDir, WorkDir}
    /\ cli = NoCli
    /\ dir \in Trees
    /\ orig = dir
    /\ absolute_files = {}
    /\ pending = {}
    /\ outcome = [n \in DOMAIN dir |-> "Pending"]
    /\ had_failure = FALSE
    /\ read_error = FALSE
    /\ warned = {}
    /\ fatal = NoFatal
    /\ exit = "running"

\* main: an Err of main_fallible is printed and the process exits FAILURE.
Abort(kind, arg) ==
    /\ fatal' = [kind |-> kind, arg |-> arg]
    /\ exit' = "FAILURE"
    /\ pc' = "done"

\* What -C may name, relative to the directory the shell is in.
ChdirPool == {Rel(<<"w">>), Rel(<<"nx">>)}

\* std::env::set_current_dir: the directory must exist.
CanChdir(target, base, tree) ==
    NodeAt(Absolute(target, base), tree).kind = "dir"

\* CliOptions::parse() and the -C step. Without -C the shell is already in
\* the working directory.
StartWith(lists) ==
    /\ pc = "parse"
    /\ \E files \in lists, r, d, f \in BOOLEAN :
          cli' = [files |-> files, recursive |-> r, dirs |-> d, force |-> f]
    /\ \/ /\ cwd = WorkDir
          /\ pc' = "existence"
          /\ UNCHANGED <<cwd, fatal, exit>>
       \/ \E target \in ChdirPool :
             IF CanChdir(target, cwd, dir)
             THEN /\ cwd' = Absolute(target, cwd)
                  /\ pc' = "existence"
                  /\ UNCHANGED <<fatal, exit>>
             ELSE /\ Abort("CantChdir", target)
                  /\ UNCHANGED cwd
    /\ UNCHANGED <<dir, orig, absolute_files, pending, outcome, had_failure,
                   read_error, warned>>

Start == StartWith(SeqsUpTo(TargetPool, MaxTargets))

\* The existence check made for the targets inside the current directory
\* only.
Checked_SkipOutside(files, r) ==
    {i \in 1..Len(files) :
        /\ ~ParentIsNot(Absolute(files[i], cwd), cwd)
        /\ TryExists(files[i], cwd, dir) = r}

\* The indexes of cli.files whose existence check returns r.
Checked(files, r) ==
    {i \in 1..Len(files) : TryExists(files[i], cwd, dir) = r}

Min(S) == CHOOSE i \in S : \A j \in S : i <= j

\* The empty list is let through.
IsEmptyList_Never(files) == FALSE

\* cli.files.is_empty()
IsEmptyList(files) == files = <<>>

\* The loop over cli.files stops at the first missing target.
Warnings_FirstOnly(files, stop) ==
    LET missing == {j \in Checked(files, "false") : j < stop}
    IN  IF missing = {} THEN {} ELSE {files[Min(missing)]}

\* The targets warned about ("Warning: ... doesn't exist.") when the loop over
\* cli.files runs up to, and not including, index stop.
Warnings(files, stop) ==
    {files[i] : i \in {j \in Checked(files, "false") : j < stop}}

\* The existence gate: skipped under --force; an empty list is refused; every
\* missing target is warned about before the run is refused; a check that
\* fails ends the loop at once.
ExistenceGate ==
    /\ pc = "existence"
    /\ IF cli.force
       THEN /\ pc' = "containment"
            /\ UNCHANGED <<warned, fatal, exit>>
       ELSE IF IsEmptyList(cli.files)
       THEN /\ Abort("NoFiles", Rel(<<>>))
            /\ UNCHANGED warned
       ELSE IF Checked(cli.files, "err") # {}
       THEN LET stop == Min(Checked(cli.files, "err"))
            IN  /\ warned' = Warnings(cli.files, stop)
                /\ Abort("CantCheck", cli.files[stop])
       ELSE /\ warned' = Warnings(cli.files, Len(cli.files) + 1)
            /\ IF Checked(cli.files, "false") # {}
               THEN Abort("MissingFiles", Rel(<<>>))
               ELSE /\ pc' = "containment"
                    /\ UNCHANGED <<fatal, exit>>
    /\ UNCHANGED <<cwd, cli, dir, orig, absolute_files, pending, outcome,
                   had_failure, read_error>>

\* Only the first target is tested.
Outside_FirstOnly(files, cwd_absolute) ==
    {i \in 1..Len(files) :
        i = 1 /\ ParentIsNot(Absolute(files[i], cwd_absolute), cwd_absolute)}

\* The indexes of cli.files the containment gate refuses.
Outside(files, cwd_absolute) ==
    {i \in 1..Len(files) : ParentIsNot(Absolute(files[i], cwd_absolute), cwd_absolute)}

\* The containment gate: the first target whose parent is not the current
\* directory ends the run; otherwise the absolute paths are collected.
ContainmentGate ==
    /\ pc = "containment"
    /\ LET cwd_absolute == Absolute(Rel(<<".">>), cwd)
       IN  IF Outside(cli.files, cwd_absolute) # {}
           THEN /\ Abort("NotInCwd", cli.files[Min(Outside(cli.files, cwd_absolute))])
                /\ UNCHANGED absolute_files
           ELSE /\ absolute_files' =
                      {Absolute(cli.files[i], cwd) : i \in 1..Len(cli.files)}
                /\ pc' = "listing"
                /\ UNCHANGED <<fatal, exit>>
    /\ UNCHANGED <<cwd, cli, dir, orig, pending, outcome, had_failure,
                   read_error, warned>>

\* A listing that leaves out what is not a regular file.
Listing_FilesOnly(tree) == {n \in DOMAIN tree : tree[n].kind = "file"}

\* The entries the stream of fs::read_dir(".") yields.
Listing(tree) == DOMAIN tree

\* fs::read_dir("."): the listing opens, or the run ends.
OpenListing ==
    /\ pc = "listing"
    /\ \E ok \in BOOLEAN :
          IF ok
          THEN /\ pending' = Listing(dir)
               /\ pc' = "scan"
               /\ UNCHANGED <<fatal, exit>>
          ELSE /\ Abort("CantList", Rel(<<".">>))
               /\ UNCHANGED pending
    /\ UNCHANGED <<cwd, cli, dir, orig, absolute_files, outcome, had_failure,
                   read_error, warned>>

\* The entry is emptied, not removed: an empty file is left under its name.
Remove_Truncate(tree, e) == [tree EXCEPT ![e] = FileNode]

\* What remove_file, remove_dir and a successful remove_dir_all do to the
\* working directory.
Remove(tree, e) == [n \in DOMAIN tree \ {e} |-> tree[n]]

\* delete_dir that empties the directory before it looks at the flags.
delete_dir_AttemptsFirst(opts, e, tree, io_ok, left) ==
    LET emptied == [tree EXCEPT ![e].children = {}]
    IN  IF opts.recursive
        THEN IF io_ok
             THEN [tree |-> Remove(tree, e), result |-> "Deleted"]
             ELSE [tree |-> [tree EXCEPT ![e].children = left], result |-> "IoError"]
        ELSE IF ~opts.dirs
        THEN [tree |-> emptied, result |-> "IsADirectory"]
        ELSE IF ~io_ok
        THEN [tree |-> tree, result |-> "IoError"]
        ELSE IF tree[e].children = {}
        THEN [tree |-> Remove(tree, e), result |-> "Deleted"]
        ELSE [tree |-> tree, result |-> "DirectoryNotEmpty"]

\* delete_dir with the --dirs test made before the --recursive test.
delete_dir_DirsFirst(opts, e, tree, io_ok, left) ==
    IF opts.dirs
    THEN IF ~io_ok
         THEN [tree |-> tree, result |-> "IoError"]
         ELSE IF tree[e].children = {}
         THEN [tree |-> Remove(tree, e), result |-> "Deleted"]
         ELSE [tree |-> tree, result |-> "DirectoryNotEmpty"]
    ELSE IF ~opts.recursive
    THEN [tree |-> tree, result |-> "IsADirectory"]
    ELSE IF io_ok
    THEN [tree |-> Remove(tree, e), result |-> "Deleted"]
    ELSE [tree |-> [tree EXCEPT ![e].children = left], result |-> "IoError"]

\* delete_dir. io_ok: the system calls it makes succeed; left: what a failed
\* remove_dir_all leaves of the directory's contents.
delete_dir(opts, e, tree, io_ok, left) ==
    IF opts.recursive
    THEN IF io_ok
         THEN [tree |-> Remove(tree, e), result |-> "Deleted"]
         ELSE [tree |-> [tree EXCEPT ![e].children = left], result |-> "IoError"]
    ELSE IF ~opts.dirs
    THEN [tree |-> tree, result |-> "IsADirectory"]
    ELSE IF ~io_ok
    THEN [tree |-> tree, result |-> "IoError"]
    ELSE IF tree[e].children = {}
    THEN [tree |-> Remove(tree, e), result |-> "Deleted"]
    ELSE [tree |-> tree, result |-> "DirectoryNotEmpty"]

\* The entry's path looked up as the stream gives it, not made absolute.
IsPreserved_Relative(e, preserved, base) ==
    <<".", e>> \in preserved

\* absolute_files.contains(&entry_absolute), the entry's path being ./e
IsPreserved(e, preserved, base) ==
    Absolute(Rel(<<".", e>>), base) \in preserved

\* process_entry with the entry's type read through symbolic links
\* (fs::metadata in place of DirEntry::file_type).
process_entry_FollowLinks(opts, preserved, e, tree, io_ok, left) ==
    LET kind == IF tree[e].kind = "symlink"
                THEN NodeAt(WorkDir \o tree[e].target, tree).kind
                ELSE tree[e].kind
    IN  IF IsPreserved(e, preserved, cwd)
        THEN [tree |-> tree, result |-> "Skipped"]
        ELSE IF kind = "dir"
        THEN delete_dir(opts, e, tree, io_ok, left)
        ELSE IF io_ok
        THEN [tree |-> Remove(tree, e), result |-> "Deleted"]
        ELSE [tree |-> tree, result |-> "IoError"]

\* process_entry on an entry the stream yielded.
process_entry(opts, preserved, e, tree, io_ok, left) ==
    IF IsPreserved(e, preserved, cwd)
    THEN [tree |-> tree, result |-> "Skipped"]
    ELSE IF tree[e].kind = "dir"
    THEN delete_dir(opts, e, tree, io_ok, left)
    ELSE IF io_ok
    THEN [tree |-> Remove(tree, e), result |-> "Deleted"]
    ELSE [tree |-> tree, result |-> "IoError"]

Failures == {"IsADirectory", "DirectoryNotEmpty", "IoError"}

\* The flag follows the last entry.
NextFailure_Overwrite(failed, result) == result \in Failures

\* if let Err(err) = process_entry(..) { had_failure = true; .. }
NextFailure(failed, result) == failed \/ result \in Failures

\* One turn of the removal loop on an entry.
ProcessEntry ==
    /\ pc = "scan"
    /\ \E e \in pending, io_ok \in BOOLEAN :
       \E left \in SUBSET dir[e].children :
          LET r == process_entry(cli, absolute_files, e, dir, io_ok, left)
          IN  /\ dir' = r.tree
              /\ outcome' = [outcome EXCEPT ![e] = r.result]
              /\ had_failure' = NextFailure(had_failure, r.result)
              /\ pending' = pending \ {e}
    /\ UNCHANGED <<pc, cwd, cli, orig, absolute_files, read_error, warned,
                   fatal, exit>>

\* One turn of the removal loop on an Err item of the stream.
ReadError ==
    /\ pc = "scan"
    /\ had_failure' = TRUE
    /\ read_error' = TRUE
    /\ UNCHANGED <<pc, cwd, cli, dir, orig, absolute_files, pending, outcome,
                   warned, fatal, exit>>

ExitCodeOf(failed) == IF failed THEN "FAILURE" ELSE "SUCCESS"

\* The loop is left only when no entry failed.
ScanDone_UnlessFailure(left, failed) == left = {} /\ ~failed

\* The loop is left at the first failure.
ScanDone_StopOnFailure(left, failed) == left = {} \/ failed

\* `for entry_result in cwd` ends when the stream has no more items.
ScanDone(left, failed) == left = {}

\* The stream is exhausted: main_fallible returns the exit code.
Finish ==
    /\ pc = "scan"
    /\ ScanDone(pending, had_failure)
    /\ exit' = ExitCodeOf(had_failure)
    /\ pc' = "done"
    /\ UNCHANGED <<cwd, cli, dir, orig, absolute_files, pending, outcome,
                   had_failure, read_error, warned, fatal>>

Next ==
    \/ Start
    \/ ExistenceGate
    \/ ContainmentGate
    \/ OpenListing
    \/ ProcessEntry
    \/ ReadError
    \/ Finish

Spec == Init /\ [][Next]_vars

\* ------------------------------------------------------------------ claims

\* The top-level entries whose absolute path is in the PreserveSet.
PreservedNames == {n \in DOMAIN orig : Append(WorkDir, n) \in absolute_files}

\* No turn of the removal loop returned an error.
NoEntryError ==
    /\ ~read_error
    /\ \A n \in DOMAIN outcome : outcome[n] \notin Failures

\* Both preflight gates let the run through.
PassedGates ==
    \/ pc \in {"listing", "scan"}
    \/ pc = "done" /\ fatal.kind \in {"None", "CantList"}

\* The working directory holds exactly the preserved entries, untouched.
OnlyPreservedLeft ==
    /\ DOMAIN dir = PreservedNames
    /\ \A n \in DOMAIN dir : dir[n] = orig[n]

\* C1: in every state of every run, a top-level entry whose absolute path is
\* in the PreserveSet is still in the working directory, unchanged (its
\* contents included), and its turn of the loop, once taken, was a skip: no
\* removal and no error, whatever the flags and whatever happened to the
\* other entries.
C1_PreservedSurvive ==
    \A n \in PreservedNames :
        /\ n \in DOMAIN dir
        /\ dir[n] = orig[n]
        /\ outcome[n] \in {"Pending", "Skipped"}

\* C1 witness: a finished --recursive run that skipped a preserved non-empty
\* directory while another entry was deleted and a third failed.
C1_Witness ==
    /\ pc = "done"
    /\ cli.recursive
    /\ \E n \in PreservedNames :
          /\ orig[n].kind = "dir" /\ orig[n].children # {}
          /\ outcome[n] = "Skipped"
    /\ \E m \in DOMAIN outcome : outcome[m] = "Deleted"
    /\ \E m \in DOMAIN outcome : outcome[m] \in Failures

\* C2 as written: a finished run that passed both preflight gates and had no
\* per-entry error leaves exactly the preserved entries and exits 0.
C2_Original ==
    (pc = "done" /\ PassedGates /\ NoEntryError)
        => (OnlyPreservedLeft /\ exit = "SUCCESS")

\* C2 amended: a finished run that passed both preflight gates, opened the
\* listing of the working directory and had no per-entry error leaves
\* exactly the preserved entries (every other entry gone, nothing added,
\* the preserved ones untouched) and exits 0.
C2_FinalContents ==
    (pc = "done" /\ fatal.kind = "None" /\ NoEntryError)
        => (OnlyPreservedLeft /\ exit = "SUCCESS")

\* C2 witness: such a run, which kept one entry and deleted two, a directory
\* among them.
C2_Witness ==
    /\ pc = "done" /\ fatal.kind = "None" /\ NoEntryError
    /\ Cardinality(DOMAIN dir) = 1
    /\ Cardinality(DOMAIN orig) = 3
    /\ \E n \in DOMAIN orig : orig[n].kind = "dir" /\ outcome[n] = "Deleted"

\* Where a target leads once ".." is resolved too.
RECURSIVE Collapse(_, _)
Collapse(acc, comps) ==
    IF comps = <<>> THEN acc
    ELSE CASE Head(comps) = "." -> Collapse(acc, Tail(comps))
           [] Head(comps) = ".." ->
                Collapse(IF acc = <<>> THEN acc ELSE Front(acc), Tail(comps))
           [] OTHER -> Collapse(Append(acc, Head(comps)), Tail(comps))

Resolved(p) == Collapse(IF p.abs THEN <<>> ELSE WorkDir, p.comps)

\* The target's resolved parent is not the working directory (the root has
\* no parent at all).
OutsideWorkDir(p) ==
    \/ Resolved(p) = <<>>
    \/ Front(Resolved(p)) # WorkDir

\* C3: a run one of whose preserve-targets has a resolved parent other than
\* the working directory ends aborted, with the directory as it was and a
\* non-zero exit status.
C3_OutsideTargetAborts ==
    (pc = "done" /\ \E i \in 1..Len(cli.files) : OutsideWorkDir(cli.files[i]))
        => (fatal.kind # "None" /\ dir = orig /\ exit = "FAILURE")

\* The indexes of cli.files whose path resolution in the directory as the run
\* found it ends in one of `results`.
Resolving(results) ==
    {i \in 1..Len(cli.files) :
        Walk(IF cli.files[i].abs THEN <<>> ELSE WorkDir, cli.files[i].comps,
             MaxLinkHops, orig) \in results}

\* A finished run without --force that got as far as the existence gate and
\* named a target that does not exist.
NamedMissing ==
    /\ pc = "done"
    /\ ~cli.force
    /\ fatal.kind # "CantChdir"
    /\ Resolving({"missing"}) # {}

\* C4 as written: such a run fails with the missing-targets error, after a
\* warning for every missing target, with nothing deleted and a non-zero
\* exit status.
C4_Original ==
    NamedMissing =>
        /\ fatal.kind = "MissingFiles"
        /\ warned = {cli.files[i] : i \in Resolving({"missing"})}
        /\ dir = orig
        /\ exit = "FAILURE"

\* C4 amended: such a run deletes nothing and exits non-zero; when every
\* existence check completes it fails with the missing-targets error after
\* a warning for every missing target, and when a check itself fails (the
\* path runs through a file, or a symlink loop) it fails with that check's
\* error instead.
C4_MissingTargets ==
    NamedMissing =>
        /\ dir = orig
        /\ exit = "FAILURE"
        /\ IF Resolving({"notdir", "loop"}) = {}
           THEN /\ fatal.kind = "MissingFiles"
                /\ warned = {cli.files[i] : i \in Resolving({"missing"})}
           ELSE fatal.kind = "CantCheck"

\* C4 witness: a run over a non-empty directory refused with the
\* missing-targets error after two warnings.
C4_Witness ==
    /\ pc = "done"
    /\ fatal.kind = "MissingFiles"
    /\ Cardinality(warned) = 2
    /\ DOMAIN orig # {}
    /\ dir = orig

\* C5: a run without --force and with an empty preserve-list never gets past
\* the existence gate: it deletes nothing and ends with a non-zero exit
\* status, on the empty-list error (or on the -C error when the directory
\* change before the gate failed), whatever --recursive and --dirs are.
C5_EmptyListAborts ==
    (pc # "parse" /\ ~cli.force /\ cli.files = <<>>) =>
        /\ dir = orig
        /\ pc \in {"existence", "done"}
        /\ pc = "done" =>
              /\ exit = "FAILURE"
              /\ fatal.kind \in {"NoFiles", "CantChdir"}

\* C5 witness: the empty-list error with both directory flags set, over a
\* directory that holds a directory.
C5_Witness ==
    /\ pc = "done"
    /\ fatal.kind = "NoFiles"
    /\ cli.recursive /\ cli.dirs
    /\ \E n \in DOMAIN dir : dir[n].kind = "dir"

\* The non-preserved directories the removal loop has taken its turn on.
ProcessedDirs ==
    {n \in DOMAIN orig \ PreservedNames :
        orig[n].kind = "dir" /\ outcome[n] # "Pending"}

Gone(n) == outcome[n] = "Deleted" /\ n \notin DOMAIN dir
Refused(n, why) == outcome[n] = why /\ n \in DOMAIN dir /\ dir[n] = orig[n]

\* The directory-removal policy as the claim words it.
Policy(n) ==
    IF cli.recursive THEN Gone(n)
    ELSE IF cli.dirs
    THEN IF orig[n].children = {} THEN Gone(n) ELSE Refused(n, "DirectoryNotEmpty")
    ELSE Refused(n, "IsADirectory")

\* C6 as written: every non-preserved directory the loop has processed ended
\* as the policy says.
C6_Original == \A n \in ProcessedDirs : Policy(n)

\* C6 amended: every non-preserved directory the loop has processed ended as
\* the policy says, unless a system call of its removal failed, which can
\* only happen under --dirs or --recursive: the entry then fails with that
\* I/O error and the directory remains, untouched under --dirs alone and
\* with no more than its original contents under --recursive.
C6_DirectoryPolicy ==
    \A n \in ProcessedDirs :
        IF outcome[n] = "IoError"
        THEN /\ cli.recursive \/ cli.dirs
             /\ n \in DOMAIN dir
             /\ dir[n].kind = "dir"
             /\ dir[n].children \subseteq orig[n].children
             /\ ~cli.recursive => dir[n] = orig[n]
        ELSE Policy(n)

\* C6 witness: with --recursive and --dirs both set, a non-empty directory
\* was removed, while another directory's removal failed on a system call.
C6_Witness ==
    /\ cli.recursive /\ cli.dirs
    /\ \E n \in ProcessedDirs : orig[n].children # {} /\ Gone(n)
    /\ \E n \in ProcessedDirs : outcome[n] = "IoError"

C8_ExitStatus ==
    /\ had_failure <=> ~NoEntryError
    /\ pc # "done" => exit = "running"
    /\ pc = "done" =>
          /\ exit \in {"SUCCESS", "FAILURE"}
          /\ exit = "SUCCESS" <=> (fatal.kind = "None" /\ NoEntryError)

\* C8 witness: a finished run that exits non-zero because of one failed
\* entry, its two other entries deleted.
C8_Witness ==
    /\ pc = "done" /\ fatal.kind = "None" /\ exit = "FAILURE"
    /\ ~read_error
    /\ Cardinality({n \in DOMAIN orig : outcome[n] \in Failures}) = 1
    /\ Cardinality({n \in DOMAIN orig : outcome[n] = "Deleted"}) = 2

\* Something of the directory has been removed, or the loop has taken a turn.
Touched ==
    \/ dir # orig
    \/ \E n \in DOMAIN outcome : outcome[n] # "Pending"

\* Every preserve-target is through both gates.
GatesHold ==
    /\ cli.force \/
          /\ cli.files # <<>>
          /\ \A i \in 1..Len(cli.files) : TryExists(cli.files[i], cwd, orig) = "true"
    /\ \A i \in 1..Len(cli.files) : ~ParentIsNot(Absolute(cli.files[i], cwd), cwd)
    /\ absolute_files = {Absolute(cli.files[i], cwd) : i \in 1..Len(cli.files)}

\* C9: nothing is removed and no entry is processed until the run is in its
\* removal loop, which it enters only with every preserve-target through
\* the existence gate (unless --force) and the containment gate and with
\* the listing open; a run ended by a whole-run error (-C, empty list,
\* failed check, missing target, target outside, listing) has the directory
\* as it found it.
C9_PreflightBeforeDeletion ==
    /\ Touched => (pc \in {"scan", "done"} /\ fatal.kind = "None" /\ GatesHold)
    /\ pc = "scan" => GatesHold
    /\ fatal.kind # "None" => (pc = "done" /\ dir = orig /\ ~Touched)

\* C9 witness: a run without --force, two targets named, in its removal
\* loop with an entry already deleted.
C9_Witness ==
    /\ pc = "scan"
    /\ ~cli.force
    /\ Len(cli.files) = 2
    /\ dir # orig

\* The target names a direct child of the working directory that does not
\* exist.
MissingChild(p) ==
    /\ ~OutsideWorkDir(p)
    /\ Walk(IF p.abs THEN <<>> ELSE WorkDir, p.comps, MaxLinkHops, orig) = "missing"

\* C10: under --force, a run whose preserve-list is empty or names only
\* non-existent direct children is not stopped by a gate, and once its
\* listing is open it removes every entry whose removal does not fail and
\* exits 0 when none fails; a run that names a target outside the working
\* directory is aborted with nothing deleted.
C10_ForceSkipsExistenceOnly ==
    /\ ( /\ pc = "done" /\ cli.force /\ fatal.kind # "CantChdir"
          /\ \A i \in 1..Len(cli.files) : MissingChild(cli.files[i]) ) =>
            /\ fatal.kind \in {"None", "CantList"}
            /\ fatal.kind = "None" =>
                  /\ \A n \in DOMAIN dir : outcome[n] \in Failures
                  /\ NoEntryError => exit = "SUCCESS"
    /\ ( /\ pc = "done" /\ cli.force
          /\ \E i \in 1..Len(cli.files) : OutsideWorkDir(cli.files[i]) ) =>
            (fatal.kind # "None" /\ dir = orig /\ exit = "FAILURE")

\* ----------------------------------------------------------------------- C11

\* The name x written behind k "." components: x, ./x, ././x, ...
Spelling(x, k) == Rel([i \in 1..k |-> "."] \o <<x>>)

Spellings(x) == {Spelling(x, k) : k \in 0..MaxDots}

\* Names a spelled target stands for: entries of the working directory and
\* a name no entry has.
SpelledNames == {"a", "b", "nx"}

\* Command lines that name one entry, under one spelling or under two.
SpellingLists ==
    UNION { {<<s>> : s \in Spellings(x)} \cup
            {<<s, t>> : s, t \in Spellings(x)} : x \in SpelledNames }

StartSpelling == StartWith(SpellingLists)

NextSpelling ==
    \/ StartSpelling
    \/ ExistenceGate
    \/ ContainmentGate
    \/ OpenListing
    \/ ProcessEntry
    \/ ReadError
    \/ Finish

\* The run on command lines that differ in the spelling of a target only.
SpecSpelling == Init /\ [][NextSpelling]_vars

\* The name a spelled target ends in.
NameOf(p) == p.comps[Len(p.comps)]

\* C11: however many "." components are written in front of a name x, the
\* target is accepted by the containment gate, its existence check gives what
\* the check of the plain name x gives, the preserve-set holds the one member
\* <working directory>/x for it, and the entry x is kept unchanged.
C11_SpellingsAlike ==
    /\ fatal.kind # "NotInCwd"
    /\ fatal.kind = "CantCheck" =>
            TryExists(Rel(<<NameOf(fatal.arg)>>), WorkDir, orig) = "err"
    /\ fatal.kind = "MissingFiles" =>
            /\ warned # {}
            /\ \A p \in warned : NameOf(p) \notin DOMAIN orig
    /\ PassedGates =>
            /\ absolute_files =
                  {Append(WorkDir, NameOf(cli.files[i])) : i \in 1..Len(cli.files)}
            /\ \A i \in 1..Len(cli.files) :
                  LET x == NameOf(cli.files[i])
                  IN  x \in DOMAIN orig =>
                        /\ x \in DOMAIN dir
                        /\ dir[x] = orig[x]
                        /\ outcome[x] \in {"Pending", "Skipped"}
                        /\ x \notin pending /\ pc \in {"scan", "done"}
                              /\ fatal.kind = "None" => outcome[x] = "Skipped"

\* The entry a is named as a and as ././a, is skipped, and b is deleted.
C11_Witness ==
    /\ pc = "done" /\ fatal.kind = "None"
    /\ cli.files = <<Rel(<<"a">>), Rel(<<".", ".", "a">>)>>
    /\ absolute_files = {Append(WorkDir, "a")}
    /\ {"a", "b"} \subseteq DOMAIN orig
    /\ outcome["a"] = "Skipped"
    /\ outcome["b"] = "Deleted"

\* ----------------------------------------------------------------------- C12

\* The top-level symbolic links that are not preserved and were processed.
ProcessedLinks ==
    {n \in DOMAIN orig : /\ orig[n].kind = "symlink"
                         /\ n \notin PreservedNames
                         /\ outcome[n] # "Pending"}

\* The top-level entry a link points to.
Pointee(n) == orig[n].target[1]

\* C12 as stated: every processed, non-preserved symbolic link is deleted,
\* with no error.
C12_Original == \A n \in ProcessedLinks : Gone(n)

\* C12: a processed, non-preserved symbolic link is unlinked as a
\* non-directory under every flag combination: it is gone, or the unlink
\* call failed and it is as it was; no directory refusal is reported for it.
\* The entry it points to is as it was unless that entry's own removal was
\* carried out.
C12_SymlinksUnlinked ==
    \A n \in ProcessedLinks :
        /\ Gone(n) \/ Refused(n, "IoError")
        /\ LET t == Pointee(n)
           IN  (t \in DOMAIN orig /\ t # n /\ outcome[t] \notin {"Deleted", "IoError"})
                   => (t \in DOMAIN dir /\ dir[t] = orig[t])

\* Without flags, the link b to the non-empty directory a is deleted while a
\* is refused and keeps its contents.
C12_Witness ==
    /\ pc = "done" /\ ~cli.recursive /\ ~cli.dirs
    /\ {"a", "b"} \subseteq DOMAIN orig
    /\ orig["a"] = DirNode({"x"}) /\ orig["b"] = LinkNode(<<"a">>)
    /\ "b" \in ProcessedLinks /\ Gone("b")
    /\ Refused("a", "IsADirectory")

\* ----------------------------------------------------------------------- C13

\* The preserve-targets of those runs: an entry, a missing name, and a path
\* below an entry (outside the working directory, or not checkable).
FairPool == {Rel(<<"a">>), Rel(<<"nx">>), Rel(<<"a", "x">>)}

StartFair == StartWith(SeqsUpTo(FairPool, MaxFairTargets))

NextFair ==
    \/ StartFair
    \/ ExistenceGate
    \/ ContainmentGate
    \/ OpenListing
    \/ ProcessEntry
    \/ ReadError
    \/ Finish

\* main_fallible is sequential code: whenever it has a next step it takes
\* one. An Err item of the directory stream changes the state once.
FairSpec == Init /\ [][NextFair]_vars /\ WF_vars(NextFair)

Validating == pc \in {"parse", "existence", "containment", "listing"}
Scanning == pc = "scan"
Aborted == pc = "done" /\ fatal.kind # "None"
Finalizing == pc = "done" /\ fatal.kind = "None"

\* No entry was yielded by the directory stream, and nothing was removed.
NothingProcessed ==
    /\ dir = orig
    /\ pending = {}
    /\ ~read_error /\ ~had_failure
    /\ \A n \in DOMAIN orig : outcome[n] = "Pending"

\* C13: a run starts in Validating and eventually ends, in exactly one of
\* whole-run abort and Finalizing, and stays there. Validating is left for
\* Scanning or for abort only, and an aborted run has processed no entry;
\* Scanning is left for Finalizing only, and a run that is in Scanning
\* reaches Finalizing with every entry of the listing processed, whatever
\* the entries' outcomes were.
C13_RunStateMachine ==
    /\ Validating
    /\ <>(pc = "done")
    /\ [](Aborted => NothingProcessed /\ exit = "FAILURE")
    /\ [](Finalizing =>
            /\ pending = {}
            /\ \A n \in DOMAIN orig : outcome[n] # "Pending"
            /\ exit = ExitCodeOf(had_failure))
    /\ [][ /\ Validating => (Validating' \/ Scanning' \/ Aborted')
           /\ Scanning => (Scanning' \/ Finalizing')
           /\ pc # "done" ]_vars
    /\ (Scanning ~> Finalizing)

\* A run ends in Finalizing after a skipped, a deleted and a failed entry.
C13_Witness ==
    /\ Finalizing
    /\ DOMAIN orig = {"a", "b", "c"}
    /\ outcome["a"] = "Skipped"
    /\ outcome["b"] = "IsADirectory"
    /\ outcome["c"] = "Deleted"
    /\ exit = "FAILURE"

\* ----------------------------------------------------------------------- C14

\* Every entry of the working directory is an original entry, of the kind
\* it had and with no contents it did not have.
NothingNew ==
    /\ DOMAIN dir \subseteq DOMAIN orig
    /\ \A n \in DOMAIN dir :
          /\ dir[n].kind = orig[n].kind
          /\ dir[n].target = orig[n].target
          /\ dir[n].children \subseteq orig[n].children

\* C14: in every state the top-level entries are a subset of the original
\* ones and nothing is new below them; no step adds an entry; and an entry
\* that was deleted is absent in every later state, whatever happens to the
\* entries processed after it.
C14_OnlyRemoves ==
    /\ [](NothingNew /\ \A n \in DOMAIN orig : outcome[n] = "Deleted" => n \notin DOMAIN dir)
    /\ [][ /\ orig' = orig
           /\ DOMAIN dir' \subseteq DOMAIN dir
           /\ \A n \in DOMAIN orig :
                 outcome[n] = "Deleted" => outcome'[n] = "Deleted" ]_vars

\* a was deleted, b failed afterwards or before, and the run is over: a is
\* still gone and b is the only entry left.
C14_Witness ==
    /\ pc = "done" /\ fatal.kind = "None"
    /\ DOMAIN orig = {"a", "b"}
    /\ outcome["a"] = "Deleted"
    /\ outcome["b"] \in Failures
    /\ DOMAIN dir = {"b"}
    /\ exit = "FAILURE"

\* ----------------------------------------------------------------------- C15

OrigDirs == {n \in DOMAIN orig : orig[n].kind = "dir"}

\* The contents of the top-level directory n are what they were.
ContentsIntact(n) == n \in DOMAIN dir /\ dir[n].children = orig[n].children

\* C15: a preserved directory (under any flags), a directory refused with
\* IsADirectory and a non-empty directory refused under --dirs keep their
\* contents; the contents of a top-level directory differ from the original
\* ones only if --recursive is set and that directory, not preserved, was
\* handed to the recursive removal.
C15_ContentsFrame ==
    \A n \in OrigDirs :
        /\ (PassedGates /\ n \in PreservedNames) => ContentsIntact(n)
        /\ outcome[n] \in {"IsADirectory", "DirectoryNotEmpty"} => ContentsIntact(n)
        /\ (orig[n].children # {} /\ ~ContentsIntact(n)) =>
              /\ cli.recursive
              /\ n \notin PreservedNames
              /\ outcome[n] \in {"Deleted", "IoError"}

\* Under --recursive the preserved directory a keeps its contents while the
\* directory b is removed with its contents.
C15_Witness ==
    /\ pc = "done" /\ cli.recursive
    /\ {"a", "b"} \subseteq DOMAIN orig
    /\ orig["a"] = DirNode({"x"}) /\ orig["b"] = DirNode({"x"})
    /\ "a" \in PreservedNames /\ outcome["a"] = "Skipped" /\ ContentsIntact("a")
    /\ Gone("b")

\* ----------------------------------------------------------------------- C16

\* The indexes of the targets outside the working directory.
NamedOutside == {i \in 1..Len(cli.files) : OutsideWorkDir(cli.files[i])}

\* C16 as stated: a run without --force that names a missing target and a
\* target outside the working directory ends with the missing-targets error;
\* the outside-working-directory error is reported only when every target
\* exists or --force is set; nothing is deleted in either case.
C16_Original ==
    /\ (NamedMissing /\ NamedOutside # {}) =>
            (fatal.kind = "MissingFiles" /\ dir = orig)
    /\ fatal.kind = "NotInCwd" =>
            /\ cli.force \/ Resolving({"found"}) = 1..Len(cli.files)
            /\ dir = orig

\* C16 amended: such a run ends at the existence gate, before the containment
\* gate looks at any target: with the missing-targets error, every missing
\* target warned about wherever the outside target stands in the list, when
\* every existence check completes, and with the error of the check that
\* failed otherwise. The outside-working-directory error is reported only
\* when every target exists or --force is set. Nothing is processed or
\* deleted in either case.
C16_GatePrecedence ==
    /\ (NamedMissing /\ NamedOutside # {}) =>
            /\ NothingProcessed
            /\ IF Resolving({"notdir", "loop"}) = {}
               THEN /\ fatal.kind = "MissingFiles"
                    /\ warned = {cli.files[i] : i \in Resolving({"missing"})}
               ELSE fatal.kind = "CantCheck"
    /\ fatal.kind = "NotInCwd" =>
            /\ cli.force \/ Resolving({"found"}) = 1..Len(cli.files)
            /\ NothingProcessed

\* Without --force, an existing target outside the working directory stands
\* before a missing one: the run ends with the missing-targets error.
C16_Witness ==
    /\ pc = "done" /\ ~cli.force
    /\ fatal.kind = "MissingFiles"
    /\ DOMAIN orig # {} /\ dir = orig
    /\ \E i \in NamedOutside \cap Resolving({"found"}) :
          \E j \in Resolving({"missing"}) :
             i < j /\ cli.files[j] \in warned

====
